---- MODULE Spec2Model ----
(***************************************************************************)
(* Restrictiveness ranking of security context constraints (SCCs):        *)
(* pkg/security/scc/byrestrictions.go.  The scoring functions are         *)
(* operators computed as the Go code computes them; the collection being  *)
(* sorted, and the profiles handed to the scoring functions, are state.   *)
(***************************************************************************)
EXTENDS Integers, Sequences, FiniteSets, TLC

VARIABLES s, input, first, run, pc, i, j, n, op

vars == <<s, input, first, run, pc, i, j, n, op>>

(***************************************************************************)
(* Bounds of the model.                                                    *)
(***************************************************************************)
MaxProfiles == 3      \* longest collection handed to the sort
MaxVolumes == 3       \* longest Volumes list
MaxShortCaps == 1     \* longest capability list enumerated token by token
MaxDefaultAdd == 17   \* longest DefaultAddCapabilities list of one token
MaxAllowed == 401     \* longest AllowedCapabilities list of one token
MaxRequiredDrop == 100 \* longest RequiredDropCapabilities list of one token

(***************************************************************************)
(* Values of the API types read by the code.                               *)
(***************************************************************************)
CapabilityAll == "*"

SELinuxStrategyRunAsAny == "RunAsAny"
SELinuxStrategyMustRunAs == "MustRunAs"
RunAsUserStrategyRunAsAny == "RunAsAny"
RunAsUserStrategyMustRunAsNonRoot == "MustRunAsNonRoot"
RunAsUserStrategyMustRunAsRange == "MustRunAsRange"
RunAsUserStrategyMustRunAs == "MustRunAs"

FSTypeHostPath == "hostPath"
FSTypeAll == "*"
FSTypeSecret == "secret"
FSTypeConfigMap == "configMap"
FSTypeEmptyDir == "emptyDir"
FSTypeDownwardAPI == "downwardAPI"
FSProjected == "projected"
FSTypeNone == "none"
FSTypeAWSElasticBlockStore == "awsElasticBlockStore"

\* the zero value of a strategy type, and a tag no case of the switches names
SELinuxTypes == {SELinuxStrategyRunAsAny, SELinuxStrategyMustRunAs, ""}
RunAsUserTypes == {RunAsUserStrategyRunAsAny, RunAsUserStrategyMustRunAsNonRoot,
                   RunAsUserStrategyMustRunAsRange, RunAsUserStrategyMustRunAs, ""}
TrivialFSTypes == {FSTypeSecret, FSTypeConfigMap, FSTypeEmptyDir,
                   FSTypeDownwardAPI, FSProjected, FSTypeNone}
FSTypes == {FSTypeHostPath, FSTypeAll, FSTypeAWSElasticBlockStore}
           \cup TrivialFSTypes
Capabilities == {"*", "ALL", "KILL"}

\* a SecurityContextConstraints value, with the fields the code reads
SecurityContextConstraints(priv, vols, sel, user, def, allow, drop) ==
    [AllowPrivilegedContainer |-> priv,
     Volumes |-> vols,
     SELinuxContext |-> [Type |-> sel],
     RunAsUser |-> [Type |-> user],
     DefaultAddCapabilities |-> def,
     AllowedCapabilities |-> allow,
     RequiredDropCapabilities |-> drop]

(***************************************************************************)
(* The scoring functions.                                                  *)
(***************************************************************************)

\* the loop of volumePointValue from element k on: the two flags it leaves
RECURSIVE volumeFlags(_, _, _, _)
volumeFlags(vols, k, hasHostVolume, hasNonTrivialVolume) ==
    IF k > Len(vols) THEN <<hasHostVolume, hasNonTrivialVolume>>
    ELSE IF vols[k] \in {FSTypeHostPath, FSTypeAll}
         THEN volumeFlags(vols, k + 1, TRUE, hasNonTrivialVolume)
    ELSE IF vols[k] \in TrivialFSTypes
         THEN volumeFlags(vols, k + 1, hasHostVolume, hasNonTrivialVolume)
    ELSE volumeFlags(vols, k + 1, hasHostVolume, TRUE)

\* volumePointValue with the two final tests in the other order
volumePointValueNonTrivialFirst(scc) ==
    LET flags == volumeFlags(scc.Volumes, 1, FALSE, FALSE) IN
    IF flags[2] THEN 50000
    ELSE IF flags[1] THEN 100000
    ELSE 0

volumePointValue(scc) ==
    LET flags == volumeFlags(scc.Volumes, 1, FALSE, FALSE) IN
    IF flags[1] THEN 100000
    ELSE IF flags[2] THEN 50000
    ELSE 0

hasCap(needle, haystack) ==
    \E k \in 1..Len(haystack) : needle = haystack[k]

\* clampPoints without the floor
clampPointsNoFloor(points) ==
    IF points > 10000 THEN 10000
    ELSE points

clampPoints(points) ==
    IF points > 10000 THEN 10000
    ELSE IF points < 0 THEN 0
    ELSE points

\* capabilitiesPointValue looking for CapabilityAll only in AllowedCapabilities
capabilitiesPointValueStarOnly(scc) ==
    LET p1 == 5000 + 300 * Len(scc.DefaultAddCapabilities)
        p2 == IF hasCap(CapabilityAll, scc.AllowedCapabilities) THEN p1 + 4000
              ELSE p1 + 10 * Len(scc.AllowedCapabilities)
        p3 == IF hasCap("ALL", scc.RequiredDropCapabilities) THEN p2 - 3000
              ELSE p2 - 50 * Len(scc.RequiredDropCapabilities)
    IN  clampPoints(p3)

capabilitiesPointValue(scc) ==
    LET p1 == 5000 + 300 * Len(scc.DefaultAddCapabilities)
        p2 == IF hasCap(CapabilityAll, scc.AllowedCapabilities) THEN p1 + 4000
              ELSE IF hasCap("ALL", scc.AllowedCapabilities) THEN p1 + 4000
              ELSE p1 + 10 * Len(scc.AllowedCapabilities)
        p3 == IF hasCap("ALL", scc.RequiredDropCapabilities) THEN p2 - 3000
              ELSE p2 - 50 * Len(scc.RequiredDropCapabilities)
    IN  clampPoints(p3)

seLinuxPoints(scc) ==
    CASE scc.SELinuxContext.Type = SELinuxStrategyRunAsAny -> 40000
      [] scc.SELinuxContext.Type = SELinuxStrategyMustRunAs -> 10000
      [] OTHER -> 0

\* runAsUserPoints without the case of MustRunAsRange
runAsUserPointsNoRange(scc) ==
    CASE scc.RunAsUser.Type = RunAsUserStrategyRunAsAny -> 40000
      [] scc.RunAsUser.Type = RunAsUserStrategyMustRunAsNonRoot -> 30000
      [] scc.RunAsUser.Type = RunAsUserStrategyMustRunAs -> 10000
      [] OTHER -> 0

runAsUserPoints(scc) ==
    CASE scc.RunAsUser.Type = RunAsUserStrategyRunAsAny -> 40000
      [] scc.RunAsUser.Type = RunAsUserStrategyMustRunAsNonRoot -> 30000
      [] scc.RunAsUser.Type = RunAsUserStrategyMustRunAsRange -> 20000
      [] scc.RunAsUser.Type = RunAsUserStrategyMustRunAs -> 10000
      [] OTHER -> 0

\* pointValue with a privilege weight the other terms can add up to
pointValueLowPrivilege(constraint) ==
    LET p1 == IF constraint.AllowPrivilegedContainer THEN 100000 ELSE 0
        p2 == p1 + volumePointValue(constraint)
        p3 == p2 + capabilitiesPointValue(constraint)
        p4 == p3 + seLinuxPoints(constraint)
    IN  p4 + runAsUserPoints(constraint)

pointValue(constraint) ==
    LET p1 == IF constraint.AllowPrivilegedContainer THEN 200000 ELSE 0
        p2 == p1 + volumePointValue(constraint)
        p3 == p2 + capabilitiesPointValue(constraint)
        p4 == p3 + seLinuxPoints(constraint)
    IN  p4 + runAsUserPoints(constraint)

(***************************************************************************)
(* ByRestrictions: the sort.Interface methods, on Go's 0-based indices.    *)
(***************************************************************************)
ByRestrictionsLen(c) == Len(c)

\* Swap that copies one element over the other
SwapOverwrite(c, a, b) == [c EXCEPT ![a + 1] = c[b + 1]]

Swap(c, a, b) == [c EXCEPT ![a + 1] = c[b + 1], ![b + 1] = c[a + 1]]

\* Less the other way round
LessReversed(c, a, b) == pointValue(c[a + 1]) > pointValue(c[b + 1])

\* Less that holds of equal scores too
LessOrEqual(c, a, b) == pointValue(c[a + 1]) <= pointValue(c[b + 1])

Less(c, a, b) == pointValue(c[a + 1]) < pointValue(c[b + 1])

NoOp == [name |-> "none", arg |-> "", before |-> 0]

(***************************************************************************)
(* Sorting a collection: sort.Sort(ByRestrictions(...)).  For the short    *)
(* collections of the model the generic sort is its insertion sort, which  *)
(* reads and moves elements through Len, Less and Swap only.               *)
(***************************************************************************)

\* profiles handed to the sort; the first two are distinct and score alike
SortProfiles ==
    {SecurityContextConstraints(FALSE, <<>>, SELinuxStrategyMustRunAs,
                                RunAsUserStrategyMustRunAs, <<>>, <<>>, <<>>),
     SecurityContextConstraints(FALSE, <<>>, "",
                                RunAsUserStrategyMustRunAsRange, <<>>, <<>>, <<>>),
     SecurityContextConstraints(FALSE, <<FSTypeHostPath>>, SELinuxStrategyMustRunAs,
                                RunAsUserStrategyMustRunAs, <<>>, <<>>, <<>>),
     SecurityContextConstraints(TRUE, <<>>, SELinuxStrategyRunAsAny,
                                RunAsUserStrategyRunAsAny, <<>>, <<"*">>, <<>>)}

Collections == UNION {[1..len -> SortProfiles] : len \in 0..MaxProfiles}

IsPermutation(a, b) ==
    /\ Len(a) = Len(b)
    /\ \E f \in Permutations(1..Len(a)) : \A k \in 1..Len(a) : a[k] = b[f[k]]

Init ==
    /\ s \in Collections
    /\ input = s
    /\ first = <<>>
    /\ run = 1
    /\ pc = "Len"
    /\ i = 0
    /\ j = 0
    /\ n = 0
    /\ op = NoOp

\* n := data.Len(); the insertion sort starts at the second element
SortLen ==
    /\ pc = "Len"
    /\ n' = ByRestrictionsLen(s)
    /\ i' = 1
    /\ pc' = "Outer"
    /\ UNCHANGED <<s, input, first, run, j, op>>

\* for i := a + 1; i < b; i++ { j := i ...
SortOuter ==
    /\ pc = "Outer"
    /\ IF i < n
       THEN /\ j' = i
            /\ pc' = "Inner"
       ELSE /\ j' = j
            /\ pc' = "Done"
    /\ UNCHANGED <<s, input, first, run, i, n, op>>

\* ... j > a && data.Less(j, j-1) { data.Swap(j, j-1); j-- }
SortSwap ==
    /\ pc = "Inner"
    /\ j > 0
    /\ Less(s, j, j - 1)
    /\ s' = Swap(s, j, j - 1)
    /\ j' = j - 1
    /\ UNCHANGED <<input, first, run, pc, i, n, op>>

\* the inner loop's condition fails: next i
SortAdvance ==
    /\ pc = "Inner"
    /\ ~(j > 0 /\ Less(s, j, j - 1))
    /\ i' = i + 1
    /\ pc' = "Outer"
    /\ UNCHANGED <<s, input, first, run, j, n, op>>

\* the same set of profiles is sorted once more, from any arrangement of it
SortAgain ==
    /\ pc = "Done"
    /\ run = 1
    /\ first' = s
    /\ \E c \in Collections : IsPermutation(c, input) /\ s' = c /\ input' = c
    /\ run' = 2
    /\ pc' = "Len"
    /\ UNCHANGED <<i, j, n, op>>

Next == SortLen \/ SortOuter \/ SortSwap \/ SortAdvance \/ SortAgain

Spec == Init /\ [][Next]_vars

FairSpec == Spec /\ WF_vars(Next)

\* pointValue never decreases along the collection
IsSortedByPoints(c) ==
    \A k \in 1..Len(c) - 1 : pointValue(c[k]) <= pointValue(c[k + 1])

\* the profiles of one score are next to each other
EqualScoresContiguous(c) ==
    \A a, b \in 1..Len(c) :
        (a < b /\ pointValue(c[a]) = pointValue(c[b]))
            => \A k \in a..b : pointValue(c[k]) = pointValue(c[a])

\* C2: sorting two arrangements of the same set of profiles gives the
\* identical output sequence, ties included.
C2_ReproducibleOrdering ==
    (run = 2 /\ pc = "Done") => s = first

\* C9: every sort terminates, and its output is a permutation of its
\* input along which pointValue never decreases, equal scores contiguous.
C9_SortTerminatesOrdered ==
    /\ (pc = "Len") ~> (pc = "Done")
    /\ [](pc = "Done" => /\ IsPermutation(s, input)
                         /\ IsSortedByPoints(s)
                         /\ EqualScoresContiguous(s))

C9_Witness ==
    /\ pc = "Done"
    /\ Len(s) = MaxProfiles
    /\ s # input
    /\ \E a, b \in 1..Len(s) : a # b /\ s[a] # s[b] /\ pointValue(s[a]) = pointValue(s[b])

OneToken(len) == [k \in 1..len |-> "KILL"]

\* capability settings <<DefaultAdd, Allowed, RequiredDrop>>: none, enough
\* grants to pass the ceiling, enough drops to reach the floor
PairCaps ==
    {<<(<<>>), (<<>>), (<<>>)>>,
     <<OneToken(MaxDefaultAdd), <<CapabilityAll>>, (<<>>)>>,
     <<(<<>>), (<<>>), OneToken(MaxRequiredDrop)>>}

PairVolumes == {<<>>, <<FSTypeAWSElasticBlockStore>>, <<FSTypeHostPath>>}

PairProfiles ==
    {SecurityContextConstraints(priv, vols, sel, user, caps[1], caps[2], caps[3]) :
        priv \in BOOLEAN, vols \in PairVolumes, sel \in SELinuxTypes,
        user \in RunAsUserTypes, caps \in PairCaps}

BoolString(b) == IF b THEN "true" ELSE "false"

InitPair ==
    /\ s \in {<<a, b>> : a \in PairProfiles, b \in PairProfiles}
    /\ input = s
    /\ first = <<>>
    /\ run = 1
    /\ pc = "Pair"
    /\ i = 0
    /\ j = 0
    /\ n = 0
    /\ op = NoOp

\* the comparator is asked about the two profiles
PairLess ==
    /\ pc = "Pair"
    /\ op.name = "none"
    /\ \E a, b \in 0..ByRestrictionsLen(s) - 1 :
          /\ a # b
          /\ i' = a
          /\ j' = b
          /\ op' = [name |-> "Less", arg |-> BoolString(Less(s, a, b)),
                    before |-> pointValue(s[a + 1])]
    /\ UNCHANGED <<s, input, first, run, pc, n>>

NextPair == PairLess

SpecPair == InitPair /\ [][NextPair]_vars

\* C1: a profile that allows privileged containers scores strictly higher
\* than one that does not, whatever the other fields of the two are.
C1_PrivilegeDominance ==
    \A a, b \in 1..Len(s) :
        (s[a].AllowPrivilegedContainer /\ ~s[b].AllowPrivilegedContainer)
            => pointValue(s[a]) > pointValue(s[b])

\* the privileged profile at its lowest score, the other at its highest
C1_Witness ==
    /\ op.name = "Less"
    /\ s[1].AllowPrivilegedContainer
    /\ ~s[2].AllowPrivilegedContainer
    /\ volumePointValue(s[1]) = 0
    /\ capabilitiesPointValue(s[1]) = 0
    /\ s[1].SELinuxContext.Type = ""
    /\ s[1].RunAsUser.Type = ""
    /\ volumePointValue(s[2]) = 100000
    /\ capabilitiesPointValue(s[2]) = 10000
    /\ s[2].SELinuxContext.Type = SELinuxStrategyRunAsAny
    /\ s[2].RunAsUser.Type = RunAsUserStrategyRunAsAny

\* C3: the capability score of every profile is strictly below 10000, the
\* smallest strategy weight; so of two profiles that agree on privilege,
\* volume score and RunAsUser strategy, the one with the greater SELinux
\* term scores strictly higher, whatever the capability lists are.
C3_StrategyDominatesCapabilities ==
    /\ \A a \in 1..Len(s) : capabilitiesPointValue(s[a]) < 10000
    /\ \A a, b \in 1..Len(s) :
          ( /\ s[a].AllowPrivilegedContainer = s[b].AllowPrivilegedContainer
            /\ volumePointValue(s[a]) = volumePointValue(s[b])
            /\ s[a].RunAsUser.Type = s[b].RunAsUser.Type
            /\ seLinuxPoints(s[a]) > seLinuxPoints(s[b]) )
              => pointValue(s[a]) > pointValue(s[b])

(***************************************************************************)
(* Scoring the capability lists of one profile, and of the profile one     *)
(* more entry makes of it.                                                 *)
(***************************************************************************)
ShortCapLists == UNION {[1..len -> Capabilities] : len \in 0..MaxShortCaps}

\* no entry, or one
UnitCapLists == {<<>>} \cup {<<c>> : c \in Capabilities}

DefaultAddLists == UnitCapLists \cup {OneToken(len) : len \in 0..MaxDefaultAdd}
AllowedLists == UnitCapLists \cup {OneToken(len) : len \in 0..MaxAllowed}
RequiredDropLists == UnitCapLists \cup {OneToken(len) : len \in 0..MaxRequiredDrop}

\* <<DefaultAdd, Allowed, RequiredDrop>>: three short lists, or one list of
\* any length and two of at most one entry
CapSettings ==
    (ShortCapLists \X ShortCapLists \X ShortCapLists)
    \cup (DefaultAddLists \X UnitCapLists \X UnitCapLists)
    \cup (UnitCapLists \X AllowedLists \X UnitCapLists)
    \cup (UnitCapLists \X UnitCapLists \X RequiredDropLists)

InitCaps ==
    /\ \E caps \in CapSettings :
          s = <<SecurityContextConstraints(FALSE, <<>>, "", "",
                                           caps[1], caps[2], caps[3])>>
    /\ input = s
    /\ first = <<>>
    /\ run = 1
    /\ pc = "Caps"
    /\ i = 0
    /\ j = 0
    /\ n = 0
    /\ op = NoOp

AppendDefaultAdd(c) ==
    /\ pc = "Caps"
    /\ op.name = "none"
    /\ s' = [s EXCEPT ![1].DefaultAddCapabilities = Append(@, c)]
    /\ op' = [name |-> "AppendDefaultAdd", arg |-> c,
              before |-> capabilitiesPointValue(s[1])]
    /\ UNCHANGED <<input, first, run, pc, i, j, n>>

AppendAllowed(c) ==
    /\ pc = "Caps"
    /\ op.name = "none"
    /\ s' = [s EXCEPT ![1].AllowedCapabilities = Append(@, c)]
    /\ op' = [name |-> "AppendAllowed", arg |-> c,
              before |-> capabilitiesPointValue(s[1])]
    /\ UNCHANGED <<input, first, run, pc, i, j, n>>

AppendRequiredDrop(c) ==
    /\ pc = "Caps"
    /\ op.name = "none"
    /\ s' = [s EXCEPT ![1].RequiredDropCapabilities = Append(@, c)]
    /\ op' = [name |-> "AppendRequiredDrop", arg |-> c,
              before |-> capabilitiesPointValue(s[1])]
    /\ UNCHANGED <<input, first, run, pc, i, j, n>>

\* the other spelling of the wildcard: "ALL" for "*" and "*" for "ALL"
OtherWildcard(c) ==
    IF c = "ALL" THEN CapabilityAll
    ELSE IF c = CapabilityAll THEN "ALL"
    ELSE c

\* the same profile with the wildcard of AllowedCapabilities spelled the
\* other way
RespellAllowed ==
    /\ pc = "Caps"
    /\ op.name = "none"
    /\ \E k \in 1..Len(s[1].AllowedCapabilities) :
          s[1].AllowedCapabilities[k] \in {"ALL", CapabilityAll}
    /\ s' = [s EXCEPT ![1].AllowedCapabilities =
                 [k \in 1..Len(@) |-> OtherWildcard(@[k])]]
    /\ op' = [name |-> "RespellAllowed", arg |-> "",
              before |-> capabilitiesPointValue(s[1])]
    /\ UNCHANGED <<input, first, run, pc, i, j, n>>

NextCaps ==
    \/ \E c \in Capabilities : AppendDefaultAdd(c)
    \/ \E c \in Capabilities : AppendAllowed(c)
    \/ \E c \in Capabilities : AppendRequiredDrop(c)
    \/ RespellAllowed

SpecCaps == InitCaps /\ [][NextCaps]_vars

\* C4: one more entry in DefaultAddCapabilities or in AllowedCapabilities,
\* a wildcard included, never lowers capabilitiesPointValue.
C4_GrantsNeverLower ==
    op.name \in {"AppendDefaultAdd", "AppendAllowed"}
        => capabilitiesPointValue(s[1]) >= op.before

\* C5: one more entry in RequiredDropCapabilities, the wildcard included,
\* never raises capabilitiesPointValue.
C5_DropsNeverRaise ==
    op.name = "AppendRequiredDrop"
        => capabilitiesPointValue(s[1]) <= op.before

\* the capability score of a profile whose AllowedCapabilities holds a
\* wildcard, from the weights: base, default adds, allow-all, drops
AllowAllScore(scc) ==
    LET drop == IF \E k \in DOMAIN scc.RequiredDropCapabilities :
                       scc.RequiredDropCapabilities[k] = "ALL"
                THEN 3000
                ELSE 50 * Len(scc.RequiredDropCapabilities)
        sum == 5000 + 300 * Len(scc.DefaultAddCapabilities) + 4000 - drop
    IN  IF sum > 10000 THEN 10000 ELSE IF sum < 0 THEN 0 ELSE sum

\* C6: spelling the wildcard of AllowedCapabilities "ALL" or "*" gives the
\* same capabilitiesPointValue and the same pointValue, and either spelling
\* anywhere in the list makes the allow term the allow-all weight.
C6_WildcardEquivalence ==
    /\ op.name = "RespellAllowed"
          => /\ capabilitiesPointValue(s[1]) = capabilitiesPointValue(input[1])
             /\ pointValue(s[1]) = pointValue(input[1])
    /\ (\E k \in DOMAIN s[1].AllowedCapabilities :
            s[1].AllowedCapabilities[k] \in {"ALL", "*"})
          => capabilitiesPointValue(s[1]) = AllowAllScore(s[1])

C6_Witness ==
    /\ op.name = "RespellAllowed"
    /\ input[1].AllowedCapabilities = <<"ALL">>
    /\ s[1].AllowedCapabilities = <<"*">>
    /\ Len(s[1].DefaultAddCapabilities) = 1
    /\ capabilitiesPointValue(s[1]) = 9300

(***************************************************************************)
(* Scoring one profile, and the profile one more volume makes of it.       *)
(***************************************************************************)
InitProfile ==
    /\ \E priv \in BOOLEAN, sel \in SELinuxTypes, user \in RunAsUserTypes,
          caps \in PairCaps :
          s = <<SecurityContextConstraints(priv, <<>>, sel, user,
                                           caps[1], caps[2], caps[3])>>
    /\ input = s
    /\ first = <<>>
    /\ run = 1
    /\ pc = "Profile"
    /\ i = 0
    /\ j = 0
    /\ n = 0
    /\ op = NoOp

AppendVolume(v) ==
    /\ pc = "Profile"
    /\ Len(s[1].Volumes) < MaxVolumes
    /\ s' = [s EXCEPT ![1].Volumes = Append(@, v)]
    /\ op' = [name |-> "AppendVolume", arg |-> v, before |-> pointValue(s[1])]
    /\ UNCHANGED <<input, first, run, pc, i, j, n>>

NextProfile == \E v \in FSTypes : AppendVolume(v)

SpecProfile == InitProfile /\ [][NextProfile]_vars

\* the volume score the rule gives a Volumes list
VolumeRule(vols) ==
    IF \E k \in DOMAIN vols : vols[k] \in {"hostPath", "*"} THEN 100000
    ELSE IF \E k \in DOMAIN vols :
                vols[k] \notin {"secret", "configMap", "emptyDir",
                                "downwardAPI", "projected", "none"}
         THEN 50000
    ELSE 0

\* C7: volumePointValue is 100000 if Volumes holds HostPath or the wildcard,
\* else 50000 if it holds a kind outside the trivial ones, else 0; with
\* HostPath in the list the score is that of HostPath alone.
C7_VolumeRule ==
    /\ volumePointValue(s[1]) = VolumeRule(s[1].Volumes)
    /\ (\E k \in DOMAIN s[1].Volumes : s[1].Volumes[k] = FSTypeHostPath)
          => volumePointValue(s[1])
               = volumePointValue([s[1] EXCEPT !.Volumes = <<FSTypeHostPath>>])

\* HostPath last, after a non-trivial and a trivial kind
C7_Witness ==
    /\ op.name = "AppendVolume"
    /\ s[1].Volumes = <<FSTypeAWSElasticBlockStore, FSTypeSecret, FSTypeHostPath>>
    /\ volumePointValue(s[1]) = 100000

\* the weights of the strategy tags, as the tests list them
StrategyWeight(tag, weights) ==
    IF tag \in DOMAIN weights THEN weights[tag] ELSE 0

SELinuxWeights == [RunAsAny |-> 40000, MustRunAs |-> 10000]

RunAsUserWeights == [RunAsAny |-> 40000, MustRunAsNonRoot |-> 30000,
                     MustRunAsRange |-> 20000, MustRunAs |-> 10000]

\* C8: pointValue is the sum of the privilege term, the volume score, the
\* capability score and the two strategy terms; without volumes and
\* capability lists that is 5000 plus the three other terms; a HostPath
\* volume added to no volumes raises it by 100000; it lies in 0..390000.
C8_ScoreComposition ==
    LET scc == s[1]
        priv == IF scc.AllowPrivilegedContainer THEN 200000 ELSE 0
        sel == StrategyWeight(scc.SELinuxContext.Type, SELinuxWeights)
        user == StrategyWeight(scc.RunAsUser.Type, RunAsUserWeights)
    IN  /\ pointValue(scc) = priv + volumePointValue(scc)
                              + capabilitiesPointValue(scc) + sel + user
        /\ ( /\ scc.Volumes = <<>>
             /\ scc.DefaultAddCapabilities = <<>>
             /\ scc.AllowedCapabilities = <<>>
             /\ scc.RequiredDropCapabilities = <<>> )
              => pointValue(scc) = 5000 + priv + sel + user
        /\ (op.name = "AppendVolume" /\ scc.Volumes = <<FSTypeHostPath>>)
              => pointValue(scc) = op.before + 100000
        /\ pointValue(scc) >= 0
        /\ pointValue(scc) <= 200000 + 100000 + 10000 + 40000 + 40000

\* the test's sanity check: MustRunAs, MustRunAs and a HostPath volume
C8_Witness ==
    /\ op.name = "AppendVolume"
    /\ s[1].Volumes = <<FSTypeHostPath>>
    /\ ~s[1].AllowPrivilegedContainer
    /\ s[1].SELinuxContext.Type = SELinuxStrategyMustRunAs
    /\ s[1].RunAsUser.Type = RunAsUserStrategyMustRunAs
    /\ s[1].DefaultAddCapabilities = <<>>
    /\ s[1].AllowedCapabilities = <<>>
    /\ s[1].RequiredDropCapabilities = <<>>
    /\ pointValue(s[1]) = 125000

\* the capability score from the weights: base 5000, 300 a default add,
\* 4000 for a wildcard grant or 10 a grant, 3000 for "ALL" dropped or 50 a
\* drop, kept within 0..10000
CapabilityFormula(scc) ==
    LET allow == IF \E k \in DOMAIN scc.AllowedCapabilities :
                        scc.AllowedCapabilities[k] \in {"*", "ALL"}
                 THEN 4000
                 ELSE 10 * Len(scc.AllowedCapabilities)
        drop == IF \E k \in DOMAIN scc.RequiredDropCapabilities :
                       scc.RequiredDropCapabilities[k] = "ALL"
                THEN 3000
                ELSE 50 * Len(scc.RequiredDropCapabilities)
        sum == 5000 + 300 * Len(scc.DefaultAddCapabilities) + allow - drop
    IN  IF sum < 0 THEN 0 ELSE IF sum > 10000 THEN 10000 ELSE sum

\* C11: capabilitiesPointValue is the weighted sum clamped to 0..10000;
\* a wildcard grant and a wildcard drop both apply (6000 with no default
\* adds); the result lies in 0..10000 however long the lists are.
C11_CapabilityFormula ==
    LET scc == s[1] IN
    /\ capabilitiesPointValue(scc) = CapabilityFormula(scc)
    /\ ( /\ scc.DefaultAddCapabilities = <<>>
         /\ \E k \in DOMAIN scc.AllowedCapabilities :
                scc.AllowedCapabilities[k] \in {"*", "ALL"}
         /\ \E k \in DOMAIN scc.RequiredDropCapabilities :
                scc.RequiredDropCapabilities[k] = "ALL" )
          => capabilitiesPointValue(scc) = 6000
    /\ capabilitiesPointValue(scc) >= 0
    /\ capabilitiesPointValue(scc) <= 10000

\* one drop more than the base pays for: the sum is below 0, the score 0
C11_Witness ==
    /\ op.name = "AppendRequiredDrop"
    /\ op.arg = "KILL"
    /\ s[1].DefaultAddCapabilities = <<>>
    /\ s[1].AllowedCapabilities = <<>>
    /\ 50 * Len(s[1].RequiredDropCapabilities) > 5000
    /\ capabilitiesPointValue(s[1]) = 0

(***************************************************************************)
(* Any caller of the sort.Interface methods: Len, Less and Swap called in  *)
(* any order, with any indices of the collection.                          *)
(***************************************************************************)
InitCalls ==
    /\ s \in Collections
    /\ input = s
    /\ first = <<>>
    /\ run = 1
    /\ pc = "Calls"
    /\ i = 0
    /\ j = 0
    /\ n = 0
    /\ op = NoOp

\* s.Len()
CallLen ==
    /\ pc = "Calls"
    /\ n' = ByRestrictionsLen(s)
    /\ op' = [name |-> "Len", arg |-> "", before |-> 0]
    /\ UNCHANGED <<s, input, first, run, pc, i, j>>

\* s.Less(a, b)
CallLess(a, b) ==
    /\ pc = "Calls"
    /\ i' = a
    /\ j' = b
    /\ op' = [name |-> "Less", arg |-> BoolString(Less(s, a, b)),
              before |-> pointValue(s[a + 1])]
    /\ UNCHANGED <<s, input, first, run, pc, n>>

\* s.Swap(a, b)
CallSwap(a, b) ==
    /\ pc = "Calls"
    /\ s' = Swap(s, a, b)
    /\ i' = a
    /\ j' = b
    /\ op' = [name |-> "Swap", arg |-> "", before |-> pointValue(s[a + 1])]
    /\ UNCHANGED <<input, first, run, pc, n>>

NextCalls ==
    \/ CallLen
    \/ \E a, b \in 0..Len(s) - 1 : CallLess(a, b)
    \/ \E a, b \in 0..Len(s) - 1 : CallSwap(a, b)

SpecCalls == InitCalls /\ [][NextCalls]_vars

\* what one step may do to the collection: a Swap exchanges the elements
\* at its two indices and leaves the others, Len and Less leave all
FrameOfStep ==
    /\ Len(s') = Len(s)
    /\ op'.name = "Swap"
          => /\ s'[i' + 1] = s[j' + 1]
             /\ s'[j' + 1] = s[i' + 1]
             /\ \A k \in 1..Len(s) : k \notin {i' + 1, j' + 1} => s'[k] = s[k]
    /\ op'.name # "Swap" => s' = s

\* C12: whatever Len, Less and Swap calls are made, the collection stays a
\* permutation of the original profiles, field by field, and as long; a Swap
\* exchanges its two positions only, and Len and Less change nothing.
C12_SortNeverMutates ==
    /\ [](Len(s) = Len(input) /\ IsPermutation(s, input))
    /\ [][FrameOfStep]_vars

C12_Witness ==
    /\ op.name = "Swap"
    /\ i # j
    /\ Len(s) = MaxProfiles
    /\ s # input
    /\ s[i + 1] # s[j + 1]
====
